---- MODULE Spec2Model ----
(***************************************************************************)
(* A model of highlight.py (flaxsearch/highlighter): the chunk tokenizer,  *)
(* the term normaliser, the phrase matcher, the score window, the sample   *)
(* selector and the two reconstruction loops of Highlighter.makeSample and *)
(* Highlighter.highlight.                                                  *)
(*                                                                         *)
(* Texts, chunks and terms are sequences of one-character strings.  The    *)
(* Python lists scores, highlight and selected are functions on            *)
(* 0..lenwords-1, so that every position of the source keeps its value;    *)
(* words and terms are sequences, words[p + 1] being words[p] of the       *)
(* source.                                                                 *)
(***************************************************************************)
EXTENDS Integers, Sequences, FiniteSets, TLC

\* highlight.py:19
WINDOW == 50

-----------------------------------------------------------------------------
(* Character classes of the (byte-string) regular expressions.             *)

LowerLetters ==
    <<"a","b","c","d","e","f","g","h","i","j","k","l","m",
      "n","o","p","q","r","s","t","u","v","w","x","y","z">>

UpperLetters ==
    <<"A","B","C","D","E","F","G","H","I","J","K","L","M",
      "N","O","P","Q","R","S","T","U","V","W","X","Y","Z">>

Digits == {"0","1","2","3","4","5","6","7","8","9"}

\* \s
IsSpace(c) == c \in {" ", "\t", "\n", "\r", "\f"}

\* \d
IsDigit(c) == c \in Digits

\* \w
IsWordChar(c) ==
    \/ c \in Digits
    \/ c = "_"
    \/ \E i \in 1..26 : c = LowerLetters[i] \/ c = UpperLetters[i]

\* [\w\'\-]
IsTermChar(c) == IsWordChar(c) \/ c \in {"'", "-"}

\* [^\w\'\-\s]
IsPunctChar(c) == ~IsTermChar(c) /\ ~IsSpace(c)

\* str.lower() on one character
LowerChar(c) ==
    IF \E i \in 1..26 : c = UpperLetters[i]
    THEN LowerLetters[CHOOSE i \in 1..26 : c = UpperLetters[i]]
    ELSE c

\* str.lower()
Lower(s) == [i \in 1..Len(s) |-> LowerChar(s[i])]

\* str.rstrip(): the string up to its last character that is no white space
RStrip(s) ==
    SubSeq(s, 1, CHOOSE j \in 0..Len(s) :
                     /\ j = 0 \/ ~IsSpace(s[j])
                     /\ \A k \in (j + 1)..Len(s) : IsSpace(s[k]))

-----------------------------------------------------------------------------
(* chunk_re, highlight.py:22.  Each alternative is tried at position i of  *)
(* the text in the order of the pattern; EndOf... is the position after    *)
(* the match, or 0 when the alternative does not match at i.               *)

\* the end of the greedy run s* / \d* / ... starting at i
SpaceEnd(t, i) ==
    CHOOSE j \in i..(Len(t) + 1) :
        /\ \A k \in i..(j - 1) : IsSpace(t[k])
        /\ (j = Len(t) + 1 \/ ~IsSpace(t[j]))

DigitEnd(t, i) ==
    CHOOSE j \in i..(Len(t) + 1) :
        /\ \A k \in i..(j - 1) : IsDigit(t[k])
        /\ (j = Len(t) + 1 \/ ~IsDigit(t[j]))

WordCharEnd(t, i) ==
    CHOOSE j \in i..(Len(t) + 1) :
        /\ \A k \in i..(j - 1) : IsWordChar(t[k])
        /\ (j = Len(t) + 1 \/ ~IsWordChar(t[j]))

TermCharEnd(t, i) ==
    CHOOSE j \in i..(Len(t) + 1) :
        /\ \A k \in i..(j - 1) : IsTermChar(t[k])
        /\ (j = Len(t) + 1 \/ ~IsTermChar(t[j]))

PunctEnd(t, i) ==
    CHOOSE j \in i..(Len(t) + 1) :
        /\ \A k \in i..(j - 1) : IsPunctChar(t[k])
        /\ (j = Len(t) + 1 \/ ~IsPunctChar(t[j]))

CharAt(t, i, c) == i <= Len(t) /\ t[i] = c

\* <\w+[^>]*>\s*
EndOfOpenTag(t, i) ==
    IF /\ CharAt(t, i, "<")
       /\ i + 1 <= Len(t) /\ IsWordChar(t[i + 1])
       /\ \E g \in (i + 2)..Len(t) : t[g] = ">"
    THEN LET g == CHOOSE g \in (i + 2)..Len(t) :
                      t[g] = ">" /\ \A k \in (i + 2)..(g - 1) : t[k] # ">"
         IN  SpaceEnd(t, g + 1)
    ELSE 0

\* </\w+>\s*
EndOfCloseTag(t, i) ==
    IF /\ CharAt(t, i, "<")
       /\ CharAt(t, i + 1, "/")
       /\ WordCharEnd(t, i + 2) > i + 2
       /\ CharAt(t, WordCharEnd(t, i + 2), ">")
    THEN SpaceEnd(t, WordCharEnd(t, i + 2) + 1)
    ELSE 0

\* \d{1,3}\. : a run of one to three digits and a dot; the position after the dot
EndOfOctetDot(t, i) ==
    IF i = 0 \/ i > Len(t) THEN 0
    ELSE LET d == DigitEnd(t, i)
         IN  IF d - i >= 1 /\ d - i <= 3 /\ CharAt(t, d, ".") THEN d + 1 ELSE 0

\* \d{1,3}\.\d{1,3}\.\d{1,3}\.\d{1,3}\s*
EndOfIP(t, i) ==
    LET p == EndOfOctetDot(t, EndOfOctetDot(t, EndOfOctetDot(t, i)))
    IN  IF p = 0 \/ p > Len(t) \/ DigitEnd(t, p) = p THEN 0
        ELSE LET d == DigitEnd(t, p)
             IN  SpaceEnd(t, IF d - p > 3 THEN p + 3 ELSE d)

\* \d{3}-\d{2}-\d{4}\s*
EndOfSSN(t, i) ==
    IF /\ i + 10 <= Len(t)
       /\ \A k \in {0, 1, 2, 4, 5, 7, 8, 9, 10} : IsDigit(t[i + k])
       /\ t[i + 3] = "-" /\ t[i + 6] = "-"
    THEN SpaceEnd(t, i + 11)
    ELSE 0

\* [\w\'\-]+\s*
EndOfTerm(t, i) ==
    IF i <= Len(t) /\ IsTermChar(t[i]) THEN SpaceEnd(t, TermCharEnd(t, i)) ELSE 0

\* [^\w\'\-\s]+\s*
EndOfPunct(t, i) ==
    IF i <= Len(t) /\ IsPunctChar(t[i]) THEN SpaceEnd(t, PunctEnd(t, i)) ELSE 0

\* the first alternative of chunk_re that matches at i: its name and end
ChunkMatch(t, i) ==
    IF EndOfOpenTag(t, i) # 0 THEN [alt |-> "opentag", end |-> EndOfOpenTag(t, i)]
    ELSE IF EndOfCloseTag(t, i) # 0 THEN [alt |-> "closetag", end |-> EndOfCloseTag(t, i)]
    ELSE IF EndOfIP(t, i) # 0 THEN [alt |-> "ip", end |-> EndOfIP(t, i)]
    ELSE IF EndOfSSN(t, i) # 0 THEN [alt |-> "ssn", end |-> EndOfSSN(t, i)]
    ELSE IF EndOfTerm(t, i) # 0 THEN [alt |-> "term", end |-> EndOfTerm(t, i)]
    ELSE IF EndOfPunct(t, i) # 0 THEN [alt |-> "punct", end |-> EndOfPunct(t, i)]
    ELSE [alt |-> "none", end |-> 0]

\* re.finditer: the matches from position 1 on, scanning left to right and
\* skipping a character at which no alternative matches
ChunkScan(t) ==
    LET scan[i \in 1..(Len(t) + 1)] ==
            IF i > Len(t) THEN <<>>
            ELSE IF ChunkMatch(t, i).end = 0 THEN scan[i + 1]
            ELSE <<[chunk |-> SubSeq(t, i, ChunkMatch(t, i).end - 1),
                    alt |-> ChunkMatch(t, i).alt, start |-> i]>>
                   \o scan[ChunkMatch(t, i).end]
    IN  scan[1]

\* chunk_re.findall(text): the matched substrings, in order
chunk_re_findall(t) == [k \in 1..Len(ChunkScan(t)) |-> ChunkScan(t)[k].chunk]

-----------------------------------------------------------------------------
(* The state of one Highlighter and of the call it is executing.           *)

VARIABLES
    language,   \* the language the Highlighter was constructed with ("" = none)
    pc,         \* "idle", "match", "select", "create", "done", "raised"
    op,         \* the method called: "makeSample" or "highlight"
    text,       \* the arguments of the call
    query,
    maxlen,
    hl,
    no_tags,
    words,      \* the locals of the call
    terms,
    scores,
    highlight,
    selected,
    n,          \* the position the matching loop is at
    result,     \* the string returned, once pc = "done"
    error       \* the exception raised, once pc = "raised"

vars == <<language, pc, op, text, query, maxlen, hl, no_tags, words, terms,
          scores, highlight, selected, n, result, error>>

lenwords == Len(words)

\* the positions of the token sequence: xrange(lenwords)
Positions == 0..(lenwords - 1)

\* ''.join(sample)
RECURSIVE Join(_)
Join(ss) == IF ss = <<>> THEN <<>> ELSE Head(ss) \o Join(Tail(ss))

-----------------------------------------------------------------------------
(* The stemmer, highlight.py:26-42, and _normalise_text, highlight.py:190. *)

\* self.stem.stemWord(x) on the NoStem instance: stemWord is declared with the
\* single parameter s, so the bound call passes two arguments and raises.
NoStemRaises(lang) == lang = ""

\* snowballstemmer.stemmer(language).stemWord: the external stemmer, which
\* here removes a plural s from a word of three or more characters.
stemWord(w) ==
    IF Len(w) > 2 /\ w[Len(w)] = "s" /\ w[Len(w) - 1] # "s"
    THEN SubSeq(w, 1, Len(w) - 1)
    ELSE w

\* _normalise_text(term), when the stemmer does not raise
normalise_text(chunk) == stemWord(Lower(RStrip(chunk)))

\* w[0] != '<'  (highlight.py:56 and :153)
KeepWord(w) == w[1] # "<"

-----------------------------------------------------------------------------
(* Match units.  A unit is a literal normalised term or a predicate, a     *)
(* function object supplied by the caller.  Calling a predicate yields     *)
(* "True", "False" or the name of the exception it raises.                 *)

Lit(t) == [kind |-> "lit", term |-> t, fn |-> ""]
Pred(f) == [kind |-> "pred", term |-> <<>>, fn |-> f]

\* term(terms[n+offset]) for the predicates the calls are made with:
\*   starts_a   lambda t: t.startswith('a')
\*   second_b   lambda t: t[1] == 'b'      (IndexError on a one-character term)
\*   is_one     lambda t: int(t) == 1      (ValueError on a term that is no number)
CallPred(f, t) ==
    CASE f = "starts_a" -> IF Len(t) >= 1 /\ t[1] = "a" THEN "True" ELSE "False"
      [] f = "second_b" -> IF Len(t) < 2 THEN "IndexError"
                           ELSE IF t[2] = "b" THEN "True" ELSE "False"
      [] f = "is_one"   -> IF t = <<>> \/ \E i \in 1..Len(t) : ~IsDigit(t[i])
                           THEN "ValueError"
                           ELSE IF t = <<"1">> THEN "True" ELSE "False"

\* a matcher that looks at the first unit of a specification only
MatchFirstUnitOnly(trms, pos, q, offset) ==
    IF pos + Len(q) > Len(trms) THEN "IndexError"
    ELSE IF q = <<>> THEN "match"
    ELSE LET match == IF q[1].kind = "pred"
                      THEN CallPred(q[1].fn, trms[pos + 1])
                      ELSE IF trms[pos + 1] = q[1].term THEN "True" ELSE "False"
         IN  IF match = "True" THEN "match"
             ELSE IF match = "False" THEN "IndexError"
             ELSE match

\* highlight.py:69-75 (and :163-170): the units of q are tried in order against
\* terms[n+offset]; the outcome is "match", "IndexError" (raised by line 75, by
\* terms[n+offset] past the end, or by the predicate) or another exception.
RECURSIVE MatchUnits(_, _, _, _)
MatchUnits(trms, pos, q, offset) ==
    IF offset = Len(q) THEN "match"
    ELSE IF pos + offset >= Len(trms) THEN "IndexError"
    ELSE LET term == q[offset + 1]
             match == IF term.kind = "pred"
                      THEN CallPred(term.fn, trms[pos + offset + 1])
                      ELSE IF trms[pos + offset + 1] = term.term THEN "True" ELSE "False"
         IN  IF match = "True" THEN MatchUnits(trms, pos, q, offset + 1)
             ELSE IF match = "False" THEN "IndexError"
             ELSE match

\* except IndexError: pass  (highlight.py:95 and :175)
Caught(outcome) == outcome = "IndexError"

-----------------------------------------------------------------------------
(* makeSample: scoring, highlight.py:77-93.                                *)

\* for offset, term in enumerate(q): scores[n+offset] += WINDOW;
\*                                   highlight[n+offset] = True
RECURSIVE AddMatch(_, _, _, _, _)
AddMatch(sc, hlt, pos, q, offset) ==
    IF offset = Len(q) THEN [scores |-> sc, highlight |-> hlt]
    ELSE AddMatch([sc EXCEPT ![pos + offset] = @ + WINDOW],
                  [hlt EXCEPT ![pos + offset] = TRUE], pos, q, offset + 1)

\* l = n - w
LeftPos(pos, w) == pos - w

\* a right taper that starts after the first token of the match
RightPosFromStart(pos, offset, w) == pos + w

\* r = n + offset + w
RightPos(pos, offset, w) == pos + offset + w

\* for w in xrange(1, WINDOW): l = n - w; if l < 0: break; scores[l] += WINDOW - w
RECURSIVE TaperLeft(_, _, _)
TaperLeft(sc, pos, w) ==
    IF w >= WINDOW THEN sc
    ELSE LET l == LeftPos(pos, w)
         IN  IF l < 0 THEN sc
             ELSE TaperLeft([sc EXCEPT ![l] = @ + (WINDOW - w)], pos, w + 1)

\* for w in xrange(1, WINDOW): r = n + offset + w; if r == lenwords: break;
\*                             scores[r] += WINDOW - w
RECURSIVE TaperRight(_, _, _, _, _)
TaperRight(sc, len, pos, offset, w) ==
    IF w >= WINDOW THEN sc
    ELSE LET r == RightPos(pos, offset, w)
         IN  IF r = len THEN sc
             ELSE TaperRight([sc EXCEPT ![r] = @ + (WINDOW - w)], len, pos, offset, w + 1)

\* a scoring loop that goes on to the next specification after a match
NoBreakAfterMatch == FALSE

\* break  # go on to next word  (highlight.py:93)
BreakAfterMatch == TRUE

\* the body of "for n in xrange(lenwords)" of makeSample, highlight.py:67-96,
\* from the qi-th specification of the query on
RECURSIVE SampleScan(_, _, _, _, _, _)
SampleScan(qry, trms, pos, qi, sc, hlt) ==
    IF qi > Len(qry) THEN [scores |-> sc, highlight |-> hlt, error |-> ""]
    ELSE LET q == qry[qi]
             outcome == MatchUnits(trms, pos, q, 0)
         IN  IF outcome = "match"
             THEN LET m == AddMatch(sc, hlt, pos, q, 0)
                      offset == Len(q) - 1
                      tapered == TaperRight(TaperLeft(m.scores, pos, 1), Len(trms), pos, offset, 1)
                  IN  IF BreakAfterMatch
                      THEN [scores |-> tapered, highlight |-> m.highlight, error |-> ""]
                      ELSE SampleScan(qry, trms, pos, qi + 1, tapered, m.highlight)
             ELSE IF Caught(outcome)
             THEN SampleScan(qry, trms, pos, qi + 1, sc, hlt)
             ELSE [scores |-> sc, highlight |-> hlt, error |-> outcome]

-----------------------------------------------------------------------------
(* makeSample: selection, highlight.py:98-116.                             *)

\* for n in xrange(lenwords): scoreboard.setdefault(scores[n], []).append(n)
\* every score that occurs is mapped to the positions that have it, each list
\* in the order the loop appends, which is ascending
Scoreboard(sc) ==
    [s \in {sc[i] : i \in DOMAIN sc} |->
        SelectSeq([k \in 1..Cardinality(DOMAIN sc) |-> k - 1], LAMBDA p : sc[p] = s)]

\* for s in xrange(max(scores), -1, -1): if scoreboard.has_key(s):
\* the scores that occur, highest first
ScoresDescending(board) ==
    [r \in 1..Cardinality(DOMAIN board) |->
        CHOOSE s \in DOMAIN board : Cardinality({x \in DOMAIN board : x > s}) = r - 1]

\* ... for n in scoreboard[s]: the positions in the order the two loops reach them
VisitOrder(board) ==
    Join([r \in 1..Cardinality(DOMAIN board) |-> board[ScoresDescending(board)[r]]])

\* a budget test that lets the position that reaches maxlen in
OvershootsStrictly(charlen, mx) == charlen > mx

\* if charlen >= maxlen: raise StopIteration
Overshoots(charlen, mx) == charlen >= mx

\* charlen += len(words[n]) + 1 along the order; the first position at which
\* charlen overshoots raises StopIteration, which ends both loops; every
\* position reached before it has selected[n] = True
SelectLoop(order, wrds, mx) ==
    LET charlen[k \in 0..Len(order)] ==
            IF k = 0 THEN 0 ELSE charlen[k - 1] + Len(wrds[order[k] + 1]) + 1
        stop == CHOOSE k \in 1..(Len(order) + 1) :
                    /\ k = Len(order) + 1 \/ Overshoots(charlen[k], mx)
                    /\ \A j \in 1..(k - 1) : ~Overshoots(charlen[j], mx)
    IN  [p \in 0..(Len(wrds) - 1) |-> \E k \in 1..(stop - 1) : order[k] = p]

-----------------------------------------------------------------------------
(* Reconstruction: makeSample, highlight.py:118-137, and highlight,        *)
(* highlight.py:178-187.                                                   *)

Ellipsis == <<".", ".", ".", " ">>

\* hl[0] + words[n] + hl[1] if highlight[n] else words[n]
Wrapped(w, flag, marks) == IF flag THEN <<marks[1], w, marks[2]>> ELSE <<w>>

\* an ellipsis for every position that is not selected
EndsPhraseAlways(in_phrase) == TRUE

\* elif in_phrase:  (highlight.py:133)
EndsPhrase(in_phrase) == in_phrase

RECURSIVE SampleLoop(_, _, _, _, _, _, _)
SampleLoop(wrds, hlt, sel, marks, pos, in_phrase, sample) ==
    IF pos = Len(wrds) THEN sample
    ELSE IF sel[pos]
    THEN SampleLoop(wrds, hlt, sel, marks, pos + 1, TRUE,
                    sample \o Wrapped(wrds[pos + 1], hlt[pos], marks))
    ELSE IF EndsPhrase(in_phrase)
    THEN SampleLoop(wrds, hlt, sel, marks, pos + 1, FALSE, Append(sample, Ellipsis))
    ELSE SampleLoop(wrds, hlt, sel, marks, pos + 1, in_phrase, sample)

RECURSIVE HighlightLoop(_, _, _, _, _)
HighlightLoop(wrds, hlt, marks, pos, sample) ==
    IF pos = Len(wrds) THEN sample
    ELSE HighlightLoop(wrds, hlt, marks, pos + 1,
                       sample \o Wrapped(wrds[pos + 1], hlt[pos], marks))

-----------------------------------------------------------------------------
(* highlight: matching, highlight.py:160-176.                              *)

\* for offset, term in enumerate(q): highlight[n+offset] = True
RECURSIVE MarkMatch(_, _, _, _)
MarkMatch(hlt, pos, q, offset) ==
    IF offset = Len(q) THEN hlt
    ELSE MarkMatch([hlt EXCEPT ![pos + offset] = TRUE], pos, q, offset + 1)

\* the body of "for n in xrange(lenwords)" of highlight, highlight.py:161-176
RECURSIVE HighlightScan(_, _, _, _, _)
HighlightScan(qry, trms, pos, qi, hlt) ==
    IF qi > Len(qry) THEN [highlight |-> hlt, error |-> ""]
    ELSE LET q == qry[qi]
             outcome == MatchUnits(trms, pos, q, 0)
         IN  IF outcome = "match"
             THEN HighlightScan(qry, trms, pos, qi + 1, MarkMatch(hlt, pos, q, 0))
             ELSE IF Caught(outcome)
             THEN HighlightScan(qry, trms, pos, qi + 1, hlt)
             ELSE [highlight |-> hlt, error |-> outcome]

-----------------------------------------------------------------------------
(* The calls the Highlighter is given.                                     *)

\* the longest text of the exhaustive family, in chunks of the vocabulary
MaxWords == 3

\* the largest maxlen of the exhaustive family
MaxMaxlen == 7

\* the longest text of the character-level family
MaxChars == 3

\* the chunks the word-level texts are made of
Vocabulary ==
    { <<"a", " ">>, <<"b", " ">>, <<"A", "b", "s", " ">>, <<".">> }

\* the characters the character-level texts are made of
Alphabet == {"a", " ", "<", ">", "/"}

RECURSIVE SeqsUpTo(_, _)
SeqsUpTo(S, k) ==
    IF k = 0 THEN {<<>>}
    ELSE LET shorter == SeqsUpTo(S, k - 1)
         IN  shorter \cup {Append(s, x) : s \in {t \in shorter : Len(t) = k - 1}, x \in S}

WordTexts == {Join(ws) : ws \in SeqsUpTo(Vocabulary, MaxWords)}

CharTexts == SeqsUpTo(Alphabet, MaxChars)

\* texts with markup, an address, numbers and leading white space
SampleTexts ==
    { <<"<", "i", ">", "a", " ", "<", "/", "i", ">", "b", " ", "<", " ", "a">>,
      <<" ", "1", ".", "2", ".", "3", ".", "4", " ", "a", "-", "b", " ", "<", "<">>,
      <<"1", "2", "3", "-", "4", "5", "-", "6", "7", "8", "9", " ", "a", "'", "s">>,
      <<"a", " ", "1", " ", "a", " ", "2", " ", "a", " ", "b">> }

\* a text of WINDOW + 2 tokens "b " with "a " at the positions of at
LongText(at) ==
    Join([i \in 1..(WINDOW + 2) |-> IF (i - 1) \in at THEN <<"a", " ">> ELSE <<"b", " ">>])

LongTexts == {LongText(at) : at \in {{0}, {0, WINDOW + 1}, {1, WINDOW}, {25, 26}}}

A == <<"a">>
B == <<"b">>

\* the queries whose score vectors the selection is run on for every maxlen
BudgetQueries ==
    { << <<Lit(A)>> >>,
      << <<Lit(A), Lit(B)>>, <<Lit(B)>> >>,
      << <<Lit(<<"a", "b">>)>>, <<Lit(A), Lit(A), Lit(B)>> >> }

Queries ==
    BudgetQueries \cup
    { <<>>,
      << <<Lit(A)>>, <<Lit(A), Lit(B)>> >>,
      << <<Pred("starts_a")>>, <<Lit(B)>> >>,
      << <<Pred("second_b")>> >>,
      << <<Lit(A), Pred("is_one")>> >> }

Markers == << <<"<", "b", ">">>, <<"<", "/", "b", ">">> >>

NoMarkers == << <<>>, <<>> >>

\* the arguments of the calls of makeSample
SampleCalls ==
    {[text |-> t, query |-> q, maxlen |-> m, hl |-> Markers] :
        t \in WordTexts, q \in BudgetQueries, m \in 0..MaxMaxlen}
    \cup {[text |-> t, query |-> q, maxlen |-> 100, hl |-> Markers] :
        t \in WordTexts \cup SampleTexts, q \in Queries}
    \cup {[text |-> t, query |-> q, maxlen |-> MaxMaxlen, hl |-> NoMarkers] :
        t \in WordTexts \cup SampleTexts, q \in BudgetQueries}
    \cup {[text |-> t, query |-> << <<Lit(A)>> >>, maxlen |-> m, hl |-> Markers] :
        t \in CharTexts \cup LongTexts, m \in {MaxMaxlen, 100}}

\* the arguments of the calls of highlight
HighlightCalls ==
    {[text |-> t, query |-> q, hl |-> Markers, no_tags |-> TRUE] :
        t \in WordTexts \cup SampleTexts, q \in Queries}
    \cup {[text |-> t, query |-> q, hl |-> Markers, no_tags |-> b] :
        t \in CharTexts \cup SampleTexts, q \in {<<>>, << <<Lit(A)>> >>}, b \in BOOLEAN}

-----------------------------------------------------------------------------
(* The operations.                                                         *)

Init ==
    /\ language \in {"", "porter"}
    /\ pc = "idle"
    /\ op = ""
    /\ text = <<>>
    /\ query = <<>>
    /\ maxlen = 0
    /\ hl = NoMarkers
    /\ no_tags = TRUE
    /\ words = <<>>
    /\ terms = <<>>
    /\ scores = <<>>
    /\ highlight = <<>>
    /\ selected = <<>>
    /\ n = 0
    /\ result = <<>>
    /\ error = ""

\* makeSample up to the matching loop, highlight.py:53-63
MakeSampleCall(c) ==
    /\ pc = "idle"
    /\ op' = "makeSample"
    /\ text' = c.text
    /\ query' = c.query
    /\ maxlen' = c.maxlen
    /\ hl' = c.hl
    /\ no_tags' = TRUE
    /\ words' = SelectSeq(chunk_re_findall(c.text), KeepWord)
    /\ IF words' # <<>> /\ NoStemRaises(language)
       THEN /\ pc' = "raised"
            /\ error' = "TypeError"
            /\ UNCHANGED <<terms, scores, highlight, n, result>>
       ELSE /\ terms' = [i \in 1..Len(words') |-> normalise_text(words'[i])]
            /\ scores' = [i \in 0..(Len(words') - 1) |-> 0]
            /\ highlight' = [i \in 0..(Len(words') - 1) |-> FALSE]
            /\ n' = 0
            /\ IF Len(words') = 0
               THEN pc' = "done" /\ result' = c.text
               ELSE pc' = "match" /\ result' = result
            /\ error' = error
    /\ UNCHANGED <<language, selected>>

\* one pass of "for n in xrange(lenwords)" of makeSample, highlight.py:66-96
MakeSampleMatch ==
    /\ pc = "match" /\ op = "makeSample"
    /\ n < lenwords
    /\ LET r == SampleScan(query, terms, n, 1, scores, highlight)
       IN  IF r.error # ""
           THEN /\ pc' = "raised"
                /\ error' = r.error
                /\ UNCHANGED <<scores, highlight, n>>
           ELSE /\ scores' = r.scores
                /\ highlight' = r.highlight
                /\ n' = n + 1
                /\ pc' = IF n + 1 = lenwords THEN "select" ELSE "match"
                /\ error' = error
    /\ UNCHANGED <<language, op, text, query, maxlen, hl, no_tags, words, terms,
                   selected, result>>

\* the selection of makeSample, highlight.py:98-116
MakeSampleSelect ==
    /\ pc = "select"
    /\ selected' = SelectLoop(VisitOrder(Scoreboard(scores)), words, maxlen)
    /\ pc' = "create"
    /\ UNCHANGED <<language, op, text, query, maxlen, hl, no_tags, words, terms,
                   scores, highlight, n, result, error>>

\* the reconstruction of makeSample, highlight.py:118-137
MakeSampleCreate ==
    /\ pc = "create" /\ op = "makeSample"
    /\ result' = Join(SampleLoop(words, highlight, selected, hl, 0, FALSE, <<>>))
    /\ pc' = "done"
    /\ UNCHANGED <<language, op, text, query, maxlen, hl, no_tags, words, terms,
                   scores, highlight, selected, n, error>>

\* highlight up to the matching loop, highlight.py:148-157
HighlightCall(c) ==
    /\ pc = "idle"
    /\ op' = "highlight"
    /\ text' = c.text
    /\ query' = c.query
    /\ hl' = c.hl
    /\ no_tags' = c.no_tags
    /\ words' = SelectSeq(chunk_re_findall(c.text),
                           LAMBDA w : IF c.no_tags THEN KeepWord(w) ELSE TRUE)
    /\ IF words' # <<>> /\ NoStemRaises(language)
       THEN /\ pc' = "raised"
            /\ error' = "TypeError"
            /\ UNCHANGED <<terms, highlight, n>>
       ELSE /\ terms' = [i \in 1..Len(words') |-> normalise_text(words'[i])]
            /\ highlight' = [i \in 0..(Len(words') - 1) |-> FALSE]
            /\ n' = 0
            /\ pc' = IF Len(words') = 0 THEN "create" ELSE "match"
            /\ error' = error
    /\ UNCHANGED <<language, maxlen, scores, selected, result>>

\* one pass of "for n in xrange(lenwords)" of highlight, highlight.py:160-176
HighlightMatch ==
    /\ pc = "match" /\ op = "highlight"
    /\ n < lenwords
    /\ LET r == HighlightScan(query, terms, n, 1, highlight)
       IN  IF r.error # ""
           THEN /\ pc' = "raised"
                /\ error' = r.error
                /\ UNCHANGED <<highlight, n>>
           ELSE /\ highlight' = r.highlight
                /\ n' = n + 1
                /\ pc' = IF n + 1 = lenwords THEN "create" ELSE "match"
                /\ error' = error
    /\ UNCHANGED <<language, op, text, query, maxlen, hl, no_tags, words, terms,
                   scores, selected, result>>

\* the reconstruction of highlight, highlight.py:178-187
HighlightCreate ==
    /\ pc = "create" /\ op = "highlight"
    /\ result' = Join(HighlightLoop(words, highlight, hl, 0, <<>>))
    /\ pc' = "done"
    /\ UNCHANGED <<language, op, text, query, maxlen, hl, no_tags, words, terms,
                   scores, highlight, selected, n, error>>

\* hl.makeSample(text, query, maxlen, hl) on the idle Highlighter
MakeSample == pc = "idle" /\ \E c \in SampleCalls : MakeSampleCall(c)

\* hl.highlight(text, query, hl, no_tags) on the idle Highlighter
Highlight == pc = "idle" /\ \E c \in HighlightCalls : HighlightCall(c)

Next ==
    \/ MakeSample
    \/ MakeSampleMatch
    \/ MakeSampleSelect
    \/ MakeSampleCreate
    \/ Highlight
    \/ HighlightMatch
    \/ HighlightCreate

Spec == Init /\ [][Next]_vars

-----------------------------------------------------------------------------
(* What the claims are stated with.  These definitions say what a match    *)
(* is; they do not use the matching loops above.                           *)

\* the call has got past the tokenizer and has not raised
Tokenized == pc \in {"match", "select", "create", "done"}

\* unit u accepts term t: equality for a literal, a true result for a predicate
UnitHolds(u, t) ==
    IF u.kind = "pred" THEN CallPred(u.fn, t) = "True" ELSE t = u.term

\* every unit i of q accepts the term at s + i, and s + len(q) - 1 is a position
MatchesAt(q, s) ==
    /\ s + Len(q) - 1 <= lenwords - 1
    /\ \A i \in 0..(Len(q) - 1) : UnitHolds(q[i + 1], terms[s + i + 1])

\* the index in the query of the first specification that matches at s, or 0
FirstMatch(s) ==
    IF \E qi \in 1..Len(query) : MatchesAt(query[qi], s)
    THEN CHOOSE qi \in 1..Len(query) :
             /\ MatchesAt(query[qi], s)
             /\ \A qj \in 1..(qi - 1) : ~MatchesAt(query[qj], s)
    ELSE 0

\* position p lies in the tokens the first specification matching at s covers
CoveredByFirst(p, s) ==
    FirstMatch(s) # 0 /\ s <= p /\ p <= s + Len(query[FirstMatch(s)]) - 1

\* position p lies in the tokens some specification matching at s covers
CoveredByAny(p, s) ==
    \E qi \in 1..Len(query) :
        MatchesAt(query[qi], s) /\ s <= p /\ p <= s + Len(query[qi]) - 1

\* the starts the matching loop has been through
Scanned == 0..(n - 1)

\* len(chunk) + 1 of position p
Cost(p) == Len(words[p + 1]) + 1

\* sum of f over 0..k-1
RECURSIVE SumTo(_, _)
SumTo(f, k) == IF k = 0 THEN 0 ELSE f[k - 1] + SumTo(f, k - 1)

-----------------------------------------------------------------------------
(* C1: in makeSample the selected positions are exactly the longest prefix *)
(* of the positions, ordered by score descending and then position         *)
(* ascending, whose cumulative cost of len(chunk) + 1 per position stays   *)
(* strictly below maxlen.  The cost of a position counts every position    *)
(* before it in that order, so the position that reaches maxlen is left    *)
(* out and so is everything after it, whether or not it would fit.         *)

\* j comes before p in the order of selection
Before(j, p) == scores[j] > scores[p] \/ (scores[j] = scores[p] /\ j < p)

\* the cost of p and of every position before it in the order
CumCost(p) ==
    SumTo([j \in Positions |-> IF j = p \/ Before(j, p) THEN Cost(j) ELSE 0], lenwords)

C1_SelectedIsBudgetPrefix ==
    (op = "makeSample" /\ pc \in {"create", "done"} /\ lenwords > 0) =>
        \A p \in Positions : selected[p] <=> CumCost(p) < maxlen

\* a tie decided by position, and a later position left out although its own
\* cost would still fit beside what was selected
C1_Witness ==
    /\ op = "makeSample" /\ pc = "create"
    /\ \E i, j \in Positions :
           i < j /\ scores[i] = scores[j] /\ selected[i] /\ ~selected[j]
    /\ \E p \in Positions :
           /\ ~selected[p]
           /\ SumTo([j \in Positions |-> IF selected[j] THEN Cost(j) ELSE 0], lenwords)
                  + Cost(p) < maxlen

-----------------------------------------------------------------------------
(* C2: the string makeSample returns for a text with at least one token,   *)
(* markers and ellipses included, is at most maxlen characters long.       *)

C2_SampleWithinMaxlen ==
    (op = "makeSample" /\ pc = "done" /\ lenwords > 0) => Len(result) <= maxlen

-----------------------------------------------------------------------------
(* C3: in both makeSample and highlight only the first specification that  *)
(* matches at a start n contributes: the flagged tokens are exactly those  *)
(* the first matching specification of some start covers.                  *)

C3_FirstMatchInBoth ==
    Tokenized =>
        \A p \in Positions :
            highlight[p] <=> \E s \in Scanned : CoveredByFirst(p, s)

(* C3 as amended: the first-match policy is that of makeSample alone.  In  *)
(* makeSample the flagged tokens are those the first matching              *)
(* specification of a start covers, and a pass of the loop adds WINDOW to  *)
(* the score of its start once if a specification matches there and       *)
(* nothing otherwise.  In highlight every specification that matches at a  *)
(* start flags the tokens it covers.                                       *)

C3_FirstMatchInSampleOnly ==
    /\ [](Tokenized =>
            \A p \in Positions :
                highlight[p] <=>
                    \E s \in Scanned :
                        IF op = "makeSample" THEN CoveredByFirst(p, s)
                        ELSE CoveredByAny(p, s))
    /\ [][(op = "makeSample" /\ pc = "match" /\ pc' # "raised") =>
              scores'[n] = scores[n] + (IF FirstMatch(n) # 0 THEN WINDOW ELSE 0)]_vars

\* makeSample has returned, two specifications match at one start, and a
\* token only the later one covers is not flagged
C3_Witness ==
    /\ op = "makeSample" /\ pc = "done"
    /\ \E s \in Positions, qj \in 1..Len(query) :
           /\ FirstMatch(s) # 0 /\ FirstMatch(s) < qj
           /\ MatchesAt(query[qj], s)
           /\ ~highlight[s + Len(query[qj]) - 1]

-----------------------------------------------------------------------------
(* C4: a token is flagged, and so wrapped in the markers, only if it lies  *)
(* in a complete match: a specification q and a start s with               *)
(* s <= p <= s + len(q) - 1 <= last position whose every unit accepts its  *)
(* term.  A specification that mismatches after a prefix, or would run     *)
(* past the end, flags nothing, and a query of literals raises nothing.    *)

C4_FlaggedOnlyInCompleteMatch ==
    /\ Tokenized =>
           \A p \in Positions :
               highlight[p] => \E s \in Positions : CoveredByAny(p, s)
    /\ (language # "" /\ \A qi \in 1..Len(query) : \A i \in 1..Len(query[qi]) :
                             query[qi][i].kind = "lit")
           => pc # "raised"

\* highlight has returned; the first unit of a longer specification accepts
\* the last token, the specification runs past the end, the token is not flagged
C4_Witness ==
    /\ op = "highlight" /\ pc = "done" /\ lenwords > 0
    /\ \E qi \in 1..Len(query) :
           /\ Len(query[qi]) >= 2
           /\ UnitHolds(query[qi][1], terms[lenwords])
           /\ ~highlight[lenwords - 1]
    /\ \E p \in Positions : highlight[p]

-----------------------------------------------------------------------------
(* C5: the chunks of the unfiltered token sequence, concatenated in order, *)
(* are the text, and highlight(text, [], no_tags=False) returns the text   *)
(* (checked on a Highlighter whose stemmer works).                         *)

C5_ChunksRebuildText ==
    (language # "" /\ op = "highlight" /\ ~no_tags /\ Tokenized) =>
        /\ Join(words) = text
        /\ (pc = "done" /\ query = <<>>) => result = text

-----------------------------------------------------------------------------
(* C6: stripping markup drops exactly the chunks the open-tag or close-tag *)
(* alternative of the tokenizer recognised; every other chunk stays        *)
(* (checked on a Highlighter whose stemmer works).                         *)

\* the chunks of t that no tag alternative recognised, in order
NonTagChunks(t) ==
    LET kept == SelectSeq(ChunkScan(t), LAMBDA m : m.alt \notin {"opentag", "closetag"})
    IN  [k \in 1..Len(kept) |-> kept[k].chunk]

C6_StripsOnlyTags ==
    (language # "" /\ Tokenized /\ (op = "makeSample" \/ no_tags))
        => words = NonTagChunks(text)

-----------------------------------------------------------------------------
(* C7: a Highlighter constructed with no language normalises a chunk to    *)
(* the chunk right-stripped and lower-cased, and its calls on a text with  *)
(* at least one token complete without raising.                            *)

C7_NoLanguageCompletes ==
    language = "" =>
        /\ pc # "raised"
        /\ Tokenized => \A i \in 1..lenwords : terms[i] = Lower(RStrip(words[i]))

-----------------------------------------------------------------------------
(* C8: a predicate that raises while it is evaluated on a term makes the   *)
(* call fail, whatever it raises: no call in which a predicate was         *)
(* evaluated and raised returns a string.                                  *)

\* unit i of specification qi is reached at start s and is a predicate that raises
RaisesAt(s, qi, i) ==
    LET q == query[qi]
    IN  /\ s + i <= lenwords - 1
        /\ \A j \in 0..(i - 1) : UnitHolds(q[j + 1], terms[s + j + 1])
        /\ q[i + 1].kind = "pred"
        /\ CallPred(q[i + 1].fn, terms[s + i + 1]) \notin {"True", "False"}
        /\ op = "makeSample" => \A qj \in 1..(qi - 1) : ~MatchesAt(query[qj], s)

C8_RaisingPredicateFailsCall ==
    pc = "done" =>
        ~\E s \in Positions, qi \in 1..Len(query) :
             \E i \in 0..(Len(query[qi]) - 1) : RaisesAt(s, qi, i)

-----------------------------------------------------------------------------
(* C9: the score of position p is the sum over the contributing matches    *)
(* (start s, last offset k) of WINDOW inside s..s+k, of WINDOW - d at      *)
(* distance d = 1..WINDOW-1 to the left of s or to the right of s + k, and *)
(* of 0 beyond; tapers end at the ends of the token sequence and           *)
(* overlapping windows add up.                                             *)

Contribution(p, s, k) ==
    IF s <= p /\ p <= s + k THEN WINDOW
    ELSE IF 1 <= s - p /\ s - p <= WINDOW - 1 THEN WINDOW - (s - p)
    ELSE IF 1 <= p - (s + k) /\ p - (s + k) <= WINDOW - 1 THEN WINDOW - (p - (s + k))
    ELSE 0

\* what the match that contributes at start s, if any, adds to position p
FromStart(p, s) ==
    IF FirstMatch(s) = 0 THEN 0
    ELSE Contribution(p, s, Len(query[FirstMatch(s)]) - 1)

C9_ScoreIsSumOfWindows ==
    (op = "makeSample" /\ Tokenized /\ lenwords > 0) =>
        \A p \in Positions :
            scores[p] = SumTo([s \in Positions |-> IF s < n THEN FromStart(p, s) ELSE 0],
                              lenwords)

\* one flagged token with score WINDOW whose right taper has run out inside
\* the text: score 1 at distance WINDOW - 1 and 0 at distance WINDOW
C9_Witness ==
    /\ op = "makeSample" /\ pc = "select"
    /\ \E p \in Positions :
           /\ highlight[p] /\ scores[p] = WINDOW
           /\ p + WINDOW \in Positions
           /\ scores[p + WINDOW - 1] = 1
           /\ scores[p + WINDOW] = 0

-----------------------------------------------------------------------------
(* C10: the sample is the selected chunks in document order, each wrapped  *)
(* in the markers iff flagged, with one ellipsis right after each run of   *)
(* selected positions that a non-selected position follows: none before    *)
(* the first run, none after a run that ends the text, one for a stretch   *)
(* of several non-selected positions, and the empty string when nothing is *)
(* selected.                                                               *)

\* what position p contributes to the sample
Piece(p) ==
    IF selected[p]
    THEN IF highlight[p] THEN hl[1] \o words[p + 1] \o hl[2] ELSE words[p + 1]
    ELSE IF p > 0 /\ selected[p - 1] THEN Ellipsis
    ELSE <<>>

C10_SampleIsRunsWithEllipses ==
    (op = "makeSample" /\ pc = "done" /\ lenwords > 0) =>
        result = Join([k \in 1..lenwords |-> Piece(k - 1)])

\* two runs with two or more non-selected positions between them, the second
\* run ending the text
C10_Witness ==
    /\ op = "makeSample" /\ pc = "done" /\ lenwords > 3
    /\ selected[0] /\ ~selected[1] /\ ~selected[2]
    /\ selected[lenwords - 1]

====
